---- MODULE Spec2Model ----
(***************************************************************************)
(* Model of the LegoOS checkpoint barrier (managers/processor/checkpoint/  *)
(* core.c): the dispatcher checkpoint_process, the per-thread rendezvous   *)
(* checkpoint_thread, the leader's release loops and the snapshot          *)
(* orchestrator __do_checkpoint_process.                                   *)
(*                                                                         *)
(* One thread group is modelled.  Threads are numbered in thread-list      *)
(* order (the order for_each_thread walks); thread 1 is the group leader.  *)
(* Every statement of checkpoint_thread that touches shared state is one   *)
(* step, so the steps of different threads interleave as on SMP.           *)
(***************************************************************************)
EXTENDS Integers, Sequences, FiniteSets, TLC

\* ------------------------------------------------------------------ bounds

\* Largest thread group explored (nr_threads ranges over 1..MaxThreads).
MaxThreads == 3

\* Largest number of checkpoint_process system calls in one behaviour.
MaxCalls == 2

\* Capture steps fail with an error code in -MaxErr..-1.
MaxErr == 2

\* --------------------------------------------------------------- constants

ENOMEM == 12
ESRCH == 3

\* The pid of the group leader; thread t has pid BasePid + t - 1.
BasePid == 100

Leader == 1

TASK_RUNNING == "TASK_RUNNING"
TASK_INTERRUPTIBLE == "TASK_INTERRUPTIBLE"
TASK_CHECKPOINTING == "TASK_CHECKPOINTING"

\* A wake mask is the set of states it matches.  TASK_RUNNING is 0 in the
\* kernel, so no mask matches it.
MASK_CHECKPOINTING == {TASK_CHECKPOINTING}
TASK_ALL == {TASK_INTERRUPTIBLE, TASK_CHECKPOINTING}

VARIABLES
    nr_threads,       \* leader->signal->nr_threads
    process_barrier,  \* leader->process_barrier
    flag,             \* flag[t]: TIF_NEED_CHECKPOINT of thread t
    state,            \* state[t]: t->state
    on_rq,            \* on_rq[t]: t is runnable (not descheduled by schedule())
    pc,               \* pc[t]: position of thread t in checkpoint_thread
    saved_state,      \* saved_state[t]: the local of checkpoint_thread
    tasklist_lock,    \* holder of tasklist_lock: "free", "dispatcher", "leader"
    wake_t,           \* the leader's for_each_thread cursor in its wake loop
    sys_pc,           \* position of the checkpoint_process system call
    sys_t,            \* the dispatcher's for_each_thread cursor
    sys_ret,          \* return value of the last finished system call
    sys_calls,        \* number of system calls issued
    ps,               \* what the last __do_checkpoint_process left behind
    outcome,          \* history: how the leader's poll ended in its last passage
    captures,         \* history: who invoked do_checkpoint_process since the
                      \* leader last entered checkpoint_thread, in order
    first_arrival,    \* history: the first thread to arrive in this attempt, or 0
                      \* (kept until the leader takes the lock for its wake loop)
    arrived,          \* history: the threads that did atomic_inc since the counter
                      \* was last 0 by Init or by atomic_set
    capture_failed,   \* history: do_checkpoint_process returned an error in the
                      \* leader's last passage
    sys_pid           \* the pid argument of the system call in progress, or 0

vars == <<nr_threads, process_barrier, flag, state, on_rq, pc, saved_state,
          tasklist_lock, wake_t, sys_pc, sys_t, sys_ret, sys_calls, ps,
          outcome, captures, first_arrival, arrived, capture_failed, sys_pid>>

AllThreads == 1..MaxThreads
Threads == 1..nr_threads

PidOf(t) == BasePid + t - 1

\* ps before any capture ran.
NoSnapshot ==
    [ret |-> 0, calls |-> <<>>, tasks |-> <<>>, freed |-> FALSE,
     alloc_ok |-> TRUE, files_ret |-> 0, signals_ret |-> 0, bug |-> {}]

\* ------------------------------------------------------ scheduler primitives

\* wake_up_state(t, mask): try_to_wake_up() does nothing and returns false
\* unless t->state matches the mask; otherwise t becomes TASK_RUNNING and
\* runnable.
wake_up_matches(t, mask) == state[t] \in mask

woken_state(t, mask) ==
    IF wake_up_matches(t, mask) THEN [state EXCEPT ![t] = TASK_RUNNING] ELSE state

woken_on_rq(t, mask) ==
    IF wake_up_matches(t, mask) THEN [on_rq EXCEPT ![t] = TRUE] ELSE on_rq

\* "parked": blocked inside schedule() in TASK_CHECKPOINTING
Parked(t) == pc[t] = "parked" /\ ~on_rq[t] /\ state[t] = TASK_CHECKPOINTING

InCheckpointThread(t) == pc[t] # "user"

\* ----------------------------------------------------------------- Init

Init ==
    /\ nr_threads \in 1..MaxThreads
    /\ process_barrier = 0
    /\ flag = [t \in AllThreads |-> FALSE]
    /\ state \in [AllThreads -> {TASK_RUNNING, TASK_INTERRUPTIBLE}]
    /\ on_rq \in [AllThreads -> BOOLEAN]
    /\ \A t \in AllThreads : state[t] = TASK_RUNNING => on_rq[t]
    /\ \A t \in AllThreads : t > nr_threads => state[t] = TASK_RUNNING
    /\ pc = [t \in AllThreads |-> "user"]
    /\ saved_state = [t \in AllThreads |-> TASK_RUNNING]
    /\ tasklist_lock = "free"
    /\ wake_t = 1
    /\ sys_pc = "idle"
    /\ sys_t = 1
    /\ sys_ret = 0
    /\ sys_calls = 0
    /\ ps = NoSnapshot
    /\ outcome = "none"
    /\ captures = <<>>
    /\ first_arrival = 0
    /\ arrived = {}
    /\ capture_failed = FALSE
    /\ sys_pid = 0

\* ------------------------------------------------- snapshot orchestrator

\* What a capture step may return: 0, or a negative error code.
CaptureRets == {0} \cup {-e : e \in 1..MaxErr}

\* paranoid_state_check(): the non-leader threads it reports as "BUG".
paranoid_state_check == {t \in Threads \ {Leader} : state[t] # TASK_CHECKPOINTING}

\* Variant of the loop below with the "if (leader == t) continue" of the wake
\* loops: no fragment for the leader.
save_per_thread_skip_leader == [i \in 1..(nr_threads - 1) |-> PidOf(i + 1)]

\* The for_each_thread loop of __do_checkpoint_process: one ss_task per
\* thread of the group, in thread-list order, keyed by the thread's pid.
save_per_thread == [i \in 1..nr_threads |-> PidOf(i)]

\* What one run of the orchestrator did.
capture_result(ret, calls, tasks, freed) ==
    [ret |-> ret, calls |-> calls, tasks |-> tasks, freed |-> freed]

\* Variant of the orchestrator below whose save_signals failure jumps to "out"
\* instead of "revert_files".
do_checkpoint_process_no_revert(alloc_ok, files_ret, signals_ret) ==
    IF ~alloc_ok
    THEN capture_result(-ENOMEM, <<"kmalloc">>, <<>>, FALSE)
    ELSE IF files_ret # 0
    THEN capture_result(files_ret,
                        <<"kmalloc", "save_open_files", "kfree">>,
                        <<>>, TRUE)
    ELSE IF signals_ret # 0
    THEN capture_result(signals_ret,
                        <<"kmalloc", "save_open_files", "save_signals", "kfree">>,
                        <<>>, TRUE)
    ELSE capture_result(0,
                        <<"kmalloc", "save_open_files", "save_signals">>
                        \o [i \in 1..nr_threads |-> "save_thread_regs"],
                        [i \in 1..nr_threads |-> PidOf(i)], FALSE)

\* Variant of the orchestrator below whose save_open_files failure jumps to
\* "revert_files" instead of "out".
do_checkpoint_process_reverts_always(alloc_ok, files_ret, signals_ret) ==
    IF ~alloc_ok
    THEN capture_result(-ENOMEM, <<"kmalloc">>, <<>>, FALSE)
    ELSE IF files_ret # 0
    THEN capture_result(files_ret,
                        <<"kmalloc", "save_open_files",
                          "revert_save_open_files", "kfree">>,
                        <<>>, TRUE)
    ELSE IF signals_ret # 0
    THEN capture_result(signals_ret,
                        <<"kmalloc", "save_open_files", "save_signals",
                          "revert_save_open_files", "kfree">>,
                        <<>>, TRUE)
    ELSE capture_result(0,
                        <<"kmalloc", "save_open_files", "save_signals">>
                        \o [i \in 1..nr_threads |-> "save_thread_regs"],
                        [i \in 1..nr_threads |-> PidOf(i)], FALSE)

\* __do_checkpoint_process(leader).  alloc_ok, files_ret and signals_ret are
\* the results of kmalloc, save_open_files and save_signals.  The result
\* records the return value, the collaborators called (in order), the
\* ss_tasks array as filled in, and whether ss_tasks was freed.
__do_checkpoint_process(alloc_ok, files_ret, signals_ret) ==
    IF ~alloc_ok
    THEN capture_result(-ENOMEM, <<"kmalloc">>, <<>>, FALSE)
    ELSE IF files_ret # 0
    THEN capture_result(files_ret,
                        <<"kmalloc", "save_open_files", "kfree">>,
                        <<>>, TRUE)
    ELSE IF signals_ret # 0
    THEN capture_result(signals_ret,
                        <<"kmalloc", "save_open_files", "save_signals",
                          "revert_save_open_files", "kfree">>,
                        <<>>, TRUE)
    ELSE capture_result(0,
                        <<"kmalloc", "save_open_files", "save_signals">>
                        \o [i \in 1..Len(save_per_thread) |-> "save_thread_regs"],
                        save_per_thread, FALSE)

\* --------------------------------------------------- checkpoint_thread(p)

\* Entry: "long saved_state = p->state".  The caller (a kernel re-entry
\* path) runs on p itself and has seen TIF_NEED_CHECKPOINT (BUG_ON, line 165).
\* The history of the leader's passage starts afresh when the leader enters.
checkpoint_thread_enter(p) ==
    /\ pc[p] = "user"
    /\ flag[p]
    /\ on_rq[p]
    /\ saved_state' = [saved_state EXCEPT ![p] = state[p]]
    /\ pc' = [pc EXCEPT ![p] = "inc"]
    /\ outcome' = IF p = Leader THEN "none" ELSE outcome
    /\ captures' = IF p = Leader THEN <<>> ELSE captures
    /\ capture_failed' = IF p = Leader THEN FALSE ELSE capture_failed
    /\ UNCHANGED <<nr_threads, sys_pid, process_barrier, flag, state, on_rq,
                   tasklist_lock, wake_t, sys_pc, sys_t, sys_ret, sys_calls,
                   ps, first_arrival, arrived>>

\* Variant of the branch below that sends every thread down the leader's path.
after_inc_all_lead(p) == "poll"

\* The branch "if (p != leader)" taken after the increment.
after_inc(p) == IF p # Leader THEN "set_state" ELSE "poll"

\* atomic_inc(&leader->process_barrier)
barrier_inc(p) ==
    /\ pc[p] = "inc"
    /\ process_barrier' = process_barrier + 1
    /\ first_arrival' = IF first_arrival = 0 THEN p ELSE first_arrival
    /\ arrived' = arrived \cup {p}
    /\ pc' = [pc EXCEPT ![p] = after_inc(p)]
    /\ UNCHANGED <<nr_threads, sys_pid, flag, state, on_rq, saved_state,
                   tasklist_lock, wake_t, sys_pc, sys_t, sys_ret, sys_calls,
                   ps, outcome, captures, capture_failed>>

\* set_current_state(TASK_CHECKPOINTING)
set_state_checkpointing(p) ==
    /\ pc[p] = "set_state"
    /\ state' = [state EXCEPT ![p] = TASK_CHECKPOINTING]
    /\ pc' = [pc EXCEPT ![p] = "schedule"]
    /\ UNCHANGED <<nr_threads, sys_pid, process_barrier, flag, on_rq, saved_state,
                   tasklist_lock, wake_t, sys_pc, sys_t, sys_ret, sys_calls,
                   ps, outcome, captures, first_arrival, arrived, capture_failed>>

\* schedule(): a task whose state is not TASK_RUNNING is taken off the run
\* queue and stays there until woken; a task that is TASK_RUNNING (it was
\* woken between set_current_state and schedule) just goes on.
schedule_block(p) ==
    /\ pc[p] = "schedule"
    /\ state[p] # TASK_RUNNING
    /\ on_rq' = [on_rq EXCEPT ![p] = FALSE]
    /\ pc' = [pc EXCEPT ![p] = "parked"]
    /\ UNCHANGED <<nr_threads, sys_pid, process_barrier, flag, state, saved_state,
                   tasklist_lock, wake_t, sys_pc, sys_t, sys_ret, sys_calls,
                   ps, outcome, captures, first_arrival, arrived, capture_failed>>

schedule_return(p) ==
    /\ pc[p] \in {"schedule", "parked"}
    /\ state[p] = TASK_RUNNING
    /\ on_rq[p]
    /\ pc' = [pc EXCEPT ![p] = "restore"]
    /\ UNCHANGED <<nr_threads, sys_pid, process_barrier, flag, state, on_rq,
                   saved_state, tasklist_lock, wake_t, sys_pc, sys_t, sys_ret,
                   sys_calls, ps, outcome, captures, first_arrival, arrived, capture_failed>>

\* Variant of the restore below that leaves the woken thread TASK_RUNNING.
restored_state_running(p) == TASK_RUNNING

\* The value set_current_state() restores after schedule().
restored_state(p) == saved_state[p]

\* set_current_state(saved_state)
restore_state(p) ==
    /\ pc[p] = "restore"
    /\ state' = [state EXCEPT ![p] = restored_state(p)]
    /\ pc' = [pc EXCEPT ![p] = "clear"]
    /\ UNCHANGED <<nr_threads, sys_pid, process_barrier, flag, on_rq, saved_state,
                   tasklist_lock, wake_t, sys_pc, sys_t, sys_ret, sys_calls,
                   ps, outcome, captures, first_arrival, arrived, capture_failed>>

\* Variant of the return below that leaves TIF_NEED_CHECKPOINT set.
clear_flag_return_keeps_flag(p) ==
    /\ pc[p] = "clear"
    /\ saved_state' = [saved_state EXCEPT ![p] = TASK_RUNNING]
    /\ pc' = [pc EXCEPT ![p] = "user"]
    /\ UNCHANGED <<nr_threads, sys_pid, process_barrier, flag, state, on_rq,
                   tasklist_lock, wake_t, sys_pc, sys_t, sys_ret, sys_calls,
                   ps, outcome, captures, first_arrival, arrived,
                   capture_failed>>

\* clear_tsk_thread_flag(p, TIF_NEED_CHECKPOINT); return 0
\* (the local saved_state is gone: written TASK_RUNNING, as in Init)
clear_flag_return(p) ==
    /\ pc[p] = "clear"
    /\ flag' = [flag EXCEPT ![p] = FALSE]
    /\ saved_state' = [saved_state EXCEPT ![p] = TASK_RUNNING]
    /\ pc' = [pc EXCEPT ![p] = "user"]
    /\ UNCHANGED <<nr_threads, sys_pid, process_barrier, state, on_rq,
                   tasklist_lock, wake_t, sys_pc, sys_t, sys_ret, sys_calls,
                   ps, outcome, captures, first_arrival, arrived, capture_failed>>

\* ----------------------------------------- checkpoint_thread(p): the leader

\* Variant of the end of the poll below that goes straight to the wake loop.
barrier_poll_done_skips_capture(p) ==
    /\ pc[p] = "poll"
    /\ process_barrier = nr_threads
    /\ outcome' = "arrived"
    /\ pc' = [pc EXCEPT ![p] = "wake_lock"]
    /\ UNCHANGED <<nr_threads, sys_pid, process_barrier, flag, state, on_rq,
                   saved_state, tasklist_lock, wake_t, sys_pc, sys_t,
                   sys_ret, sys_calls, ps, captures, first_arrival, arrived,
                   capture_failed>>

\* The while condition holds no longer: every thread has been counted.
barrier_poll_done(p) ==
    /\ pc[p] = "poll"
    /\ process_barrier = nr_threads
    /\ outcome' = "arrived"
    /\ pc' = [pc EXCEPT ![p] = "capture"]
    /\ UNCHANGED <<nr_threads, sys_pid, process_barrier, flag, state, on_rq,
                   saved_state, tasklist_lock, wake_t, sys_pc, sys_t, sys_ret,
                   sys_calls, ps, captures, first_arrival, arrived, capture_failed>>

\* Variant of the timeout below that tests the time before the counter.
barrier_poll_timeout_unchecked(p) ==
    /\ pc[p] = "poll"
    /\ outcome' = "timeout"
    /\ pc' = [pc EXCEPT ![p] = "timeout_lock"]
    /\ UNCHANGED <<nr_threads, sys_pid, process_barrier, flag, state, on_rq,
                   saved_state, tasklist_lock, wake_t, sys_pc, sys_t,
                   sys_ret, sys_calls, ps, captures, first_arrival, arrived,
                   capture_failed>>

\* The counter differs from nr_threads and time_after(jiffies, timeout).
\* (While the timeout has not elapsed the loop reads again: a stuttering step.)
barrier_poll_timeout(p) ==
    /\ pc[p] = "poll"
    /\ process_barrier # nr_threads
    /\ outcome' = "timeout"
    /\ pc' = [pc EXCEPT ![p] = "timeout_lock"]
    /\ UNCHANGED <<nr_threads, sys_pid, process_barrier, flag, state, on_rq,
                   saved_state, tasklist_lock, wake_t, sys_pc, sys_t, sys_ret,
                   sys_calls, ps, captures, first_arrival, arrived, capture_failed>>

\* The results of the collaborators of one orchestration: a collaborator that
\* is not reached (kmalloc or save_open_files failed before it) has no result,
\* written 0.
called_in_turn(alloc_ok, files_ret, signals_ret) ==
    /\ ~alloc_ok => files_ret = 0
    /\ (~alloc_ok \/ files_ret # 0) => signals_ret = 0

\* Variant of the step below in which the leader, on an error of the
\* orchestrator, leaves without releasing the barrier.
do_checkpoint_process_bails(p) ==
    /\ pc[p] = "capture"
    /\ \E alloc_ok \in BOOLEAN, files_ret \in CaptureRets, signals_ret \in CaptureRets :
          /\ called_in_turn(alloc_ok, files_ret, signals_ret)
          /\ LET r == __do_checkpoint_process(alloc_ok, files_ret, signals_ret)
             IN  /\ ps' = [ret |-> r.ret, calls |-> r.calls, tasks |-> r.tasks,
                           freed |-> r.freed, alloc_ok |-> alloc_ok,
                           files_ret |-> files_ret, signals_ret |-> signals_ret,
                           bug |-> paranoid_state_check]
                 /\ capture_failed' = (r.ret # 0)
                 /\ pc' = [pc EXCEPT ![p] = IF r.ret # 0 THEN "clear" ELSE "wake_lock"]
    /\ captures' = Append(captures, p)
    /\ UNCHANGED <<nr_threads, sys_pid, process_barrier, flag, state, on_rq,
                   saved_state, tasklist_lock, wake_t, sys_pc, sys_t,
                   sys_ret, sys_calls, outcome, first_arrival, arrived>>

\* do_checkpoint_process(p): the whole orchestration, preemption disabled.
\* The other threads still run on their own CPUs before and after this step.
do_checkpoint_process(p) ==
    /\ pc[p] = "capture"
    /\ \E alloc_ok \in BOOLEAN, files_ret \in CaptureRets, signals_ret \in CaptureRets :
          /\ called_in_turn(alloc_ok, files_ret, signals_ret)
          /\ LET r == __do_checkpoint_process(alloc_ok, files_ret, signals_ret)
             IN  /\ ps' = [ret |-> r.ret, calls |-> r.calls, tasks |-> r.tasks,
                           freed |-> r.freed, alloc_ok |-> alloc_ok,
                           files_ret |-> files_ret, signals_ret |-> signals_ret,
                           bug |-> paranoid_state_check]
                 /\ capture_failed' = (r.ret # 0)
    /\ captures' = Append(captures, p)
    /\ pc' = [pc EXCEPT ![p] = "wake_lock"]
    /\ UNCHANGED <<nr_threads, sys_pid, process_barrier, flag, state, on_rq,
                   saved_state, tasklist_lock, wake_t, sys_pc, sys_t, sys_ret,
                   sys_calls, outcome, first_arrival, arrived>>

\* spin_lock_irqsave(&tasklist_lock) of wake_up_thread_group and of
\* barrier_timeout_wakeup.  The leader has dropped the return value of
\* do_checkpoint_process, and ps, a local of the orchestrator, is gone.
wake_lock(p) ==
    /\ pc[p] \in {"wake_lock", "timeout_lock"}
    /\ tasklist_lock = "free"
    /\ tasklist_lock' = "leader"
    /\ wake_t' = 1
    /\ ps' = NoSnapshot
    /\ first_arrival' = 0
    /\ pc' = [pc EXCEPT ![p] = IF pc[p] = "wake_lock" THEN "wake" ELSE "timeout_wake"]
    /\ UNCHANGED <<nr_threads, sys_pid, process_barrier, flag, state, on_rq,
                   saved_state, sys_pc, sys_t, sys_ret, sys_calls, outcome,
                   captures, arrived, capture_failed>>

\* One iteration of the loop of wake_up_thread_group(leader).
wake_up_thread_group(p) ==
    /\ pc[p] = "wake"
    /\ wake_t <= nr_threads
    /\ IF wake_t = p
       THEN UNCHANGED <<state, on_rq, capture_failed>>
       ELSE /\ state' = woken_state(wake_t, MASK_CHECKPOINTING)
            /\ on_rq' = woken_on_rq(wake_t, MASK_CHECKPOINTING)
    /\ wake_t' = wake_t + 1
    /\ UNCHANGED <<nr_threads, sys_pid, process_barrier, flag, pc, saved_state,
                   tasklist_lock, sys_pc, sys_t, sys_ret, sys_calls, ps,
                   outcome, captures, first_arrival, arrived, capture_failed>>

\* Variant of the iteration below that also clears the woken thread's flag.
barrier_timeout_wakeup_clears(p) ==
    /\ pc[p] = "timeout_wake"
    /\ wake_t <= nr_threads
    /\ state' = woken_state(wake_t, TASK_ALL)
    /\ on_rq' = woken_on_rq(wake_t, TASK_ALL)
    /\ flag' = [flag EXCEPT ![wake_t] = FALSE]
    /\ wake_t' = wake_t + 1
    /\ UNCHANGED <<pc, nr_threads, sys_pid, process_barrier, saved_state,
                   tasklist_lock, sys_pc, sys_t, sys_ret, sys_calls, ps,
                   outcome, captures, first_arrival, arrived, capture_failed>>

\* Variant of the iteration below with the mask and the skip of
\* wake_up_thread_group.
barrier_timeout_wakeup_scoped(p) ==
    /\ pc[p] = "timeout_wake"
    /\ wake_t <= nr_threads
    /\ IF wake_t = p
       THEN UNCHANGED <<state, on_rq>>
       ELSE /\ state' = woken_state(wake_t, MASK_CHECKPOINTING)
            /\ on_rq' = woken_on_rq(wake_t, MASK_CHECKPOINTING)
    /\ wake_t' = wake_t + 1
    /\ UNCHANGED <<pc, nr_threads, sys_pid, process_barrier, flag, saved_state,
                   tasklist_lock, sys_pc, sys_t, sys_ret, sys_calls, ps,
                   outcome, captures, first_arrival, arrived, capture_failed>>

\* One iteration of the loop of barrier_timeout_wakeup(leader).
barrier_timeout_wakeup(p) ==
    /\ pc[p] = "timeout_wake"
    /\ wake_t <= nr_threads
    /\ state' = woken_state(wake_t, TASK_ALL)
    /\ on_rq' = woken_on_rq(wake_t, TASK_ALL)
    /\ wake_t' = wake_t + 1
    /\ UNCHANGED <<nr_threads, sys_pid, process_barrier, flag, pc, saved_state,
                   tasklist_lock, sys_pc, sys_t, sys_ret, sys_calls, ps,
                   outcome, captures, first_arrival, arrived, capture_failed>>

\* spin_unlock_irqrestore(&tasklist_lock) at the end of either loop.
wake_unlock(p) ==
    /\ pc[p] \in {"wake", "timeout_wake"}
    /\ wake_t > nr_threads
    /\ tasklist_lock' = "free"
    /\ wake_t' = 1
    /\ pc' = [pc EXCEPT ![p] = "reset"]
    /\ UNCHANGED <<nr_threads, sys_pid, process_barrier, flag, state, on_rq,
                   saved_state, sys_pc, sys_t, sys_ret, sys_calls, ps,
                   outcome, captures, first_arrival, arrived, capture_failed>>

\* after_timeout: atomic_set(&p->process_barrier, 0)
barrier_reset(p) ==
    /\ pc[p] = "reset"
    /\ process_barrier' = 0
    /\ first_arrival' = 0
    /\ arrived' = {}
    /\ pc' = [pc EXCEPT ![p] = "clear"]
    /\ UNCHANGED <<nr_threads, sys_pid, flag, state, on_rq, saved_state,
                   tasklist_lock, wake_t, sys_pc, sys_t, sys_ret, sys_calls,
                   ps, outcome, captures, capture_failed>>

\* --------------------------------------- the checkpoint_process system call

\* The pids a caller may pass: those of the threads, and some of no task.
PidInputs == {BasePid + i : i \in 0..MaxThreads}

\* find_task_by_pid(pid): the thread with that pid, 0 for NULL.
find_task_by_pid(pid) ==
    IF \E t \in Threads : PidOf(t) = pid
    THEN CHOOSE t \in Threads : PidOf(t) = pid
    ELSE 0

\* The calling discipline the subsystem relies on: one attempt in flight
\* per process.  A new request for the process is made only when every
\* thread has left the previous attempt.
NoAttemptInFlight == \A t \in Threads : pc[t] = "user" /\ ~flag[t]

\* SYSCALL_DEFINE1(checkpoint_process, pid): the call is entered.
sys_checkpoint_process(pid) ==
    /\ sys_pc = "idle"
    /\ sys_calls < MaxCalls
    /\ sys_pid' = pid
    /\ sys_pc' = "lookup"
    /\ sys_calls' = sys_calls + 1
    /\ UNCHANGED <<nr_threads, process_barrier, flag, state, on_rq, pc,
                   saved_state, tasklist_lock, wake_t, sys_t, sys_ret, ps,
                   outcome, captures, first_arrival, arrived, capture_failed>>

\* tsk = find_task_by_pid(pid) is NULL: ret = -ESRCH; return ret
sys_checkpoint_process_esrch ==
    /\ sys_pc = "lookup"
    /\ find_task_by_pid(sys_pid) = 0
    /\ sys_ret' = -ESRCH
    /\ sys_pid' = 0
    /\ sys_pc' = "idle"
    /\ UNCHANGED <<nr_threads, process_barrier, flag, state, on_rq, pc,
                   saved_state, tasklist_lock, wake_t, sys_t, sys_calls, ps,
                   outcome, captures, first_arrival, arrived, capture_failed>>

\* tsk = find_task_by_pid(pid) is a task: checkpoint_process(tsk) is entered.
sys_checkpoint_process_found ==
    /\ sys_pc = "lookup"
    /\ find_task_by_pid(sys_pid) # 0
    /\ sys_pc' = "lock"
    /\ UNCHANGED <<nr_threads, sys_pid, process_barrier, flag, state, on_rq, pc,
                   saved_state, tasklist_lock, wake_t, sys_t, sys_ret, sys_calls, ps,
                   outcome, captures, first_arrival, arrived, capture_failed>>

\* spin_lock_irqsave(&tasklist_lock) of checkpoint_process.
checkpoint_process_lock ==
    /\ sys_pc = "lock"
    /\ tasklist_lock = "free"
    /\ tasklist_lock' = "dispatcher"
    /\ sys_t' = 1
    /\ sys_pc' = "loop"
    /\ UNCHANGED <<nr_threads, sys_pid, process_barrier, flag, state, on_rq, pc,
                   saved_state, wake_t, sys_ret, sys_calls, ps, outcome,
                   captures, first_arrival, arrived, capture_failed>>

\* Variant of the loop iteration below with the "if (leader == t) continue"
\* of the wake loops: the leader is not flagged.
checkpoint_process_skip_leader(t) ==
    /\ sys_pc = "loop"
    /\ sys_t = t
    /\ t <= nr_threads
    /\ IF t = Leader
       THEN UNCHANGED <<flag, state, on_rq, capture_failed>>
       ELSE /\ flag' = [flag EXCEPT ![t] = TRUE]
            /\ state' = woken_state(t, TASK_ALL)
            /\ on_rq' = woken_on_rq(t, TASK_ALL)
    /\ sys_t' = sys_t + 1
    /\ UNCHANGED <<nr_threads, sys_pid, process_barrier, pc, saved_state,
                   tasklist_lock, wake_t, sys_pc, sys_ret, sys_calls, ps,
                   outcome, captures, first_arrival, arrived, capture_failed>>

\* Variant of the loop iteration below that also resets the arrival counter.
checkpoint_process_resets(t) ==
    /\ sys_pc = "loop"
    /\ sys_t = t
    /\ t <= nr_threads
    /\ flag' = [flag EXCEPT ![t] = TRUE]
    /\ state' = woken_state(t, TASK_ALL)
    /\ on_rq' = woken_on_rq(t, TASK_ALL)
    /\ sys_t' = sys_t + 1
    /\ process_barrier' = 0
    /\ UNCHANGED <<nr_threads, sys_pid, pc, saved_state,
                   tasklist_lock, wake_t, sys_pc, sys_ret, sys_calls, ps,
                   outcome, captures, first_arrival, arrived, capture_failed>>

\* One iteration of the loop of checkpoint_process: set the flag, wake the
\* thread from any state; kick_process() on a running thread changes nothing
\* here (the thread re-enters the kernel: checkpoint_thread_enter).
checkpoint_process(t) ==
    /\ sys_pc = "loop"
    /\ sys_t = t
    /\ t <= nr_threads
    /\ flag' = [flag EXCEPT ![t] = TRUE]
    /\ state' = woken_state(t, TASK_ALL)
    /\ on_rq' = woken_on_rq(t, TASK_ALL)
    /\ sys_t' = sys_t + 1
    /\ UNCHANGED <<nr_threads, sys_pid, process_barrier, pc, saved_state,
                   tasklist_lock, wake_t, sys_pc, sys_ret, sys_calls, ps,
                   outcome, captures, first_arrival, arrived, capture_failed>>

\* spin_unlock_irqrestore(&tasklist_lock); return 0
checkpoint_process_return ==
    /\ sys_pc = "loop"
    /\ sys_t > nr_threads
    /\ tasklist_lock' = "free"
    /\ sys_ret' = 0
    /\ sys_t' = 1
    /\ sys_pid' = 0
    /\ sys_pc' = "idle"
    /\ UNCHANGED <<nr_threads, process_barrier, flag, state, on_rq, pc,
                   saved_state, wake_t, sys_calls, ps, outcome,
                   captures, first_arrival, arrived, capture_failed>>

\* ------------------------------------------------------------ environment

\* A thread outside checkpoint_thread prepares to sleep in a wait loop of its
\* own: set_current_state(TASK_INTERRUPTIBLE).  Only a thread that is already
\* flagged is followed: the dispatcher's wake makes every thread it flags
\* TASK_RUNNING, so what a thread did before that is a choice of Init.
user_prepare_sleep(t) ==
    /\ pc[t] = "user"
    /\ flag[t]
    /\ state[t] = TASK_RUNNING
    /\ state' = [state EXCEPT ![t] = TASK_INTERRUPTIBLE]
    /\ UNCHANGED <<nr_threads, sys_pid, process_barrier, flag, on_rq, pc,
                   saved_state, tasklist_lock, wake_t, sys_pc, sys_t, sys_ret,
                   sys_calls, ps, outcome, captures, first_arrival, arrived, capture_failed>>

\* A thread outside checkpoint_thread that had prepared to sleep
\* (TASK_INTERRUPTIBLE) reaches its own schedule() and blocks.  Followed for
\* flagged threads only, as above.
user_sleep(t) ==
    /\ pc[t] = "user"
    /\ flag[t]
    /\ state[t] # TASK_RUNNING
    /\ on_rq[t]
    /\ on_rq' = [on_rq EXCEPT ![t] = FALSE]
    /\ UNCHANGED <<nr_threads, sys_pid, process_barrier, flag, state, pc, saved_state,
                   tasklist_lock, wake_t, sys_pc, sys_t, sys_ret, sys_calls,
                   ps, outcome, captures, first_arrival, arrived, capture_failed>>

\* The event a flagged thread sleeps for outside checkpoint_thread arrives:
\* its waker makes it runnable again.
user_wake(t) ==
    /\ pc[t] = "user"
    /\ flag[t]
    /\ ~on_rq[t]
    /\ state' = [state EXCEPT ![t] = TASK_RUNNING]
    /\ on_rq' = [on_rq EXCEPT ![t] = TRUE]
    /\ UNCHANGED <<nr_threads, sys_pid, process_barrier, flag, pc, saved_state,
                   tasklist_lock, wake_t, sys_pc, sys_t, sys_ret, sys_calls,
                   ps, outcome, captures, first_arrival, arrived, capture_failed>>

\* -------------------------------------------------------- specification

Next ==
    \/ \E pid \in PidInputs :
          /\ find_task_by_pid(pid) # 0 => NoAttemptInFlight
          /\ sys_checkpoint_process(pid)
    \/ sys_checkpoint_process_esrch
    \/ sys_checkpoint_process_found
    \/ checkpoint_process_lock
    \/ \E t \in Threads : checkpoint_process(t)
    \/ checkpoint_process_return
    \/ \E p \in Threads : checkpoint_thread_enter(p)
    \/ \E p \in Threads : barrier_inc(p)
    \/ \E p \in Threads : set_state_checkpointing(p)
    \/ \E p \in Threads : schedule_block(p)
    \/ \E p \in Threads : schedule_return(p)
    \/ \E p \in Threads : restore_state(p)
    \/ \E p \in Threads : clear_flag_return(p)
    \/ \E p \in Threads : barrier_poll_done(p)
    \/ \E p \in Threads : barrier_poll_timeout(p)
    \/ \E p \in Threads : do_checkpoint_process(p)
    \/ \E p \in Threads : wake_lock(p)
    \/ \E p \in Threads : wake_up_thread_group(p)
    \/ \E p \in Threads : barrier_timeout_wakeup(p)
    \/ \E p \in Threads : wake_unlock(p)
    \/ \E p \in Threads : barrier_reset(p)
    \/ \E t \in Threads : user_prepare_sleep(t)
    \/ \E t \in Threads : user_sleep(t)
    \/ \E t \in Threads : user_wake(t)

Spec == Init /\ [][Next]_vars

\* Callers that do not serialize their requests: a system call may be issued
\* at any time, also while an attempt is in flight.
RetriggerNext ==
    \/ Next
    \/ \E pid \in PidInputs : sys_checkpoint_process(pid)

RetriggerSpec == Init /\ [][RetriggerNext]_vars

\* A thread that is inside checkpoint_thread and runnable goes on running:
\* every step of checkpoint_thread after its entry.  While the leader polls,
\* time passes, so the poll ends by barrier_poll_done or barrier_poll_timeout.
checkpoint_thread_step(p) ==
    \/ barrier_inc(p)
    \/ set_state_checkpointing(p)
    \/ schedule_block(p)
    \/ schedule_return(p)
    \/ restore_state(p)
    \/ clear_flag_return(p)
    \/ barrier_poll_done(p)
    \/ barrier_poll_timeout(p)
    \/ do_checkpoint_process(p)
    \/ wake_lock(p)
    \/ wake_up_thread_group(p)
    \/ barrier_timeout_wakeup(p)
    \/ wake_unlock(p)
    \/ barrier_reset(p)

\* A system call that has been entered runs to its return.
checkpoint_process_step ==
    \/ sys_checkpoint_process_esrch
    \/ sys_checkpoint_process_found
    \/ checkpoint_process_lock
    \/ \E t \in Threads : checkpoint_process(t)
    \/ checkpoint_process_return

\* Fair scheduling: every thread inside checkpoint_thread keeps being
\* scheduled, a sleep outside checkpoint_thread ends, a flagged thread that
\* is runnable again and again re-enters the kernel, and a system call in
\* progress finishes.  No further system call is ever guaranteed.
FairSpec ==
    /\ Spec
    /\ \A p \in AllThreads : WF_vars(p \in Threads /\ checkpoint_thread_step(p))
    /\ \A p \in AllThreads : WF_vars(p \in Threads /\ user_wake(p))
    /\ \A p \in AllThreads : SF_vars(p \in Threads /\ checkpoint_thread_enter(p))
    /\ WF_vars(checkpoint_process_step)

\* ================================================================ claims

\* The leader has returned from checkpoint_thread (or never entered it).
LeaderReturned == pc[Leader] = "user" /\ ~flag[Leader] /\ sys_pc = "idle"

\* C1: while the leader executes the capture, every non-leader thread is
\* parked: its state is TASK_CHECKPOINTING and it is off the run queue.
C1_OthersParkedDuringCapture ==
    pc[Leader] = "capture" =>
        \A t \in Threads \ {Leader} :
            state[t] = TASK_CHECKPOINTING /\ ~on_rq[t]

\* C2 (as stated): when the leader has returned from the passage through
\* checkpoint_thread that a trigger caused, exactly one capture has been made
\* in it, and by the leader.
C2_ExactlyOneCapturePerTrigger ==
    (LeaderReturned /\ outcome # "none") =>
        /\ Len(captures) = 1
        /\ \A i \in 1..Len(captures) : captures[i] = Leader

\* C2 (amended): every capture is made by the leader, at most one per
\* trigger: exactly one when the leader saw the barrier full, none when the
\* barrier timed out.
C2_OneCaptureOrTimeoutPerTrigger ==
    /\ \A i \in 1..Len(captures) : captures[i] = Leader
    /\ Len(captures) <= 1
    /\ outcome \in {"none", "timeout"} => captures = <<>>
    /\ (LeaderReturned /\ outcome = "arrived") => Len(captures) = 1

\* C2 witness: the second trigger of a group of three has ended with one
\* capture, every thread having returned.
C2_Witness ==
    /\ LeaderReturned
    /\ nr_threads = 3
    /\ sys_calls = 2
    /\ outcome = "arrived"
    /\ captures = <<Leader>>
    /\ \A t \in Threads : pc[t] = "user" /\ ~flag[t]

\* C3: under fair scheduling a non-leader thread blocked in schedule() in
\* TASK_CHECKPOINTING is eventually woken and returns from checkpoint_thread.
C3_ParkedEventuallyReturns ==
    \A t \in AllThreads \ {Leader} :
        (pc[t] = "parked" /\ ~on_rq[t]) ~> (pc[t] = "user")

\* No thread is in the middle of checkpoint_thread: each one is outside it,
\* or blocked in its schedule().
NoThreadMidway ==
    \A t \in Threads : pc[t] = "user" \/ (pc[t] = "parked" /\ ~on_rq[t])

\* C4: when an attempt has ended by barrier timeout (the leader has returned
\* and no thread is midway), no capture was made for it, the arrival counter
\* is 0, and every thread of the group is released with its
\* TIF_NEED_CHECKPOINT flag cleared.
C4_TimeoutReleasesEveryThread ==
    (LeaderReturned /\ outcome = "timeout" /\ NoThreadMidway) =>
        /\ captures = <<>>
        /\ process_barrier = 0
        /\ \A t \in Threads : ~flag[t] /\ pc[t] = "user"

\* C5: the arrival counter is 0 whenever a new attempt begins
\* (checkpoint_process has been invoked and has not yet marked a thread) and
\* whenever the leader has returned from checkpoint_thread.
C5_CounterZeroBetweenAttempts ==
    /\ (sys_pc = "lock" => process_barrier = 0)
    /\ (LeaderReturned => process_barrier = 0)

\* C6: a non-leader thread that has been through the rendezvous and is about
\* to return from checkpoint_thread (only the clearing of its flag is left)
\* has the scheduling state it had on entry, after a capture and after a
\* timeout alike; the return itself leaves that state alone.
C6_StateRestoredOnReturn ==
    /\ [](\A t \in Threads \ {Leader} :
            pc[t] = "clear" => state[t] = saved_state[t])
    /\ [][\A t \in Threads \ {Leader} :
            (pc[t] = "clear" /\ pc'[t] = "user") => state'[t] = saved_state[t]]_vars

\* C6 witness: two non-leader threads that entered in TASK_INTERRUPTIBLE are
\* about to return, one attempt having ended by timeout.
C6_Witness ==
    /\ nr_threads = 3
    /\ outcome = "timeout"
    /\ \A t \in {2, 3} :
          /\ pc[t] = "clear"
          /\ saved_state[t] = TASK_INTERRUPTIBLE
          /\ state[t] = TASK_INTERRUPTIBLE

\* How often, and where, a collaborator appears in a call sequence.
Count(calls, c) == Cardinality({i \in DOMAIN calls : calls[i] = c})
Positions(calls, c) == {i \in DOMAIN calls : calls[i] = c}

\* An orchestration has just run (ps is what it left).
CaptureRan == ps.calls # <<>>

\* C7: when save_signals fails after save_open_files succeeded,
\* revert_save_open_files is called exactly once, after save_signals and
\* before the array is freed, no per-thread fragment is captured, and the
\* orchestrator returns the non-zero error.
C7_SignalFailureRevertsFiles ==
    (CaptureRan /\ ps.alloc_ok /\ ps.files_ret = 0 /\ ps.signals_ret # 0) =>
        /\ Count(ps.calls, "revert_save_open_files") = 1
        /\ \A r \in Positions(ps.calls, "revert_save_open_files") :
              /\ \A g \in Positions(ps.calls, "save_signals") : g < r
              /\ \A k \in Positions(ps.calls, "kfree") : r < k
        /\ Count(ps.calls, "kfree") = 1
        /\ ps.freed
        /\ Count(ps.calls, "save_thread_regs") = 0
        /\ ps.tasks = <<>>
        /\ ps.ret = ps.signals_ret
        /\ ps.ret # 0

\* C7 witness: the leader of a group of three has just run an orchestration
\* in which save_signals failed after save_open_files succeeded.
C7_Witness ==
    /\ pc[Leader] = "wake_lock"
    /\ nr_threads = 3
    /\ CaptureRan
    /\ ps.alloc_ok
    /\ ps.files_ret = 0
    /\ ps.signals_ret = -1
    /\ ps.ret = -1

\* C8: a call with a pid of no task returns -ESRCH and changes no flag, run
\* state or counter; a call with the pid of a thread of the group returns 0,
\* and when it returns every thread of the group has TIF_NEED_CHECKPOINT set.
C8_TriggerReturn ==
    /\ [][(sys_pc = "idle" /\ sys_pc' # "idle") =>
              UNCHANGED <<flag, state, on_rq, process_barrier, pc>>]_vars
    /\ [][(sys_pc = "lookup" /\ sys_pc' # "lookup"
               /\ find_task_by_pid(sys_pid) = 0) =>
              /\ sys_ret' = -ESRCH
              /\ sys_pc' = "idle"
              /\ UNCHANGED <<flag, state, on_rq, process_barrier, pc>>]_vars
    /\ [][(sys_pc = "lookup" /\ sys_pc' # "lookup"
               /\ find_task_by_pid(sys_pid) # 0) =>
              sys_pc' = "lock"]_vars
    /\ [][(sys_pc \in {"lock", "loop"} /\ sys_pc' = "idle") =>
              /\ sys_ret' = 0
              /\ \A t \in Threads : flag'[t]]_vars

\* C8 witness: after a call that found the group of three and flagged it, a
\* second call with a pid of no task has returned -ESRCH.
C8_Witness ==
    /\ nr_threads = 3
    /\ sys_calls = 2
    /\ sys_pc = "idle"
    /\ sys_ret = -ESRCH
    /\ \A t \in Threads : flag[t]

\* A step of the checkpoint_process system call.
DispatcherMoved == <<sys_pc, sys_t, sys_calls, sys_ret, sys_pid>>' #
                   <<sys_pc, sys_t, sys_calls, sys_ret, sys_pid>>

\* C9: no step of checkpoint_process performs a capture, changes the arrival
\* counter or moves a thread inside checkpoint_thread; once inside its loop
\* the call can always take its next step, whatever the threads do; and a call
\* that found the process returns 0, so that the return value is 0 or -ESRCH
\* whatever the attempt comes to.
C9_DispatcherOnlyArms ==
    /\ [][DispatcherMoved =>
              UNCHANGED <<process_barrier, ps, captures, outcome, pc>>]_vars
    /\ [](sys_pc = "loop" => ENABLED checkpoint_process_step)
    /\ [][(sys_pc \in {"lock", "loop"} /\ sys_pc' = "idle") => sys_ret' = 0]_vars
    /\ [](sys_ret \in {0, -ESRCH})

\* C9 witness: the call has returned 0 for a group of three before any thread
\* has entered checkpoint_thread.
C9_Witness ==
    /\ nr_threads = 3
    /\ sys_pc = "idle"
    /\ sys_calls = 1
    /\ sys_ret = 0
    /\ process_barrier = 0
    /\ captures = <<>>
    /\ \A t \in Threads : flag[t] /\ pc[t] = "user"

\* C10: a successful orchestration calls save_open_files once, then
\* save_signals once, then save_thread_regs once per thread, and leaves one
\* fragment per thread, keyed by the thread's pid, in thread-list order.
C10_SnapshotContents ==
    (CaptureRan /\ ps.ret = 0) =>
        /\ Count(ps.calls, "save_open_files") = 1
        /\ Count(ps.calls, "save_signals") = 1
        /\ Count(ps.calls, "save_thread_regs") = nr_threads
        /\ \A f \in Positions(ps.calls, "save_open_files") :
              \A g \in Positions(ps.calls, "save_signals") :
                 /\ f < g
                 /\ \A r \in Positions(ps.calls, "save_thread_regs") : g < r
        /\ Len(ps.tasks) = nr_threads
        /\ \A i \in 1..nr_threads : ps.tasks[i] = PidOf(i)

\* C10 witness: a group of three was captured successfully after its last
\* thread in thread-list order was the first to arrive.
C10_Witness ==
    /\ nr_threads = 3
    /\ CaptureRan
    /\ ps.ret = 0
    /\ first_arrival = 3
    /\ ps.tasks = <<PidOf(1), PidOf(2), PidOf(3)>>

\* C11: in a group of one thread the leader never takes the timeout path:
\* when it polls, its own arrival has made the counter equal nr_threads; and
\* when it returns, the capture has run once, its flag is cleared and the
\* counter is 0.
C11_SingleThreadNeverTimesOut ==
    /\ [](nr_threads = 1 =>
            /\ outcome # "timeout"
            /\ pc[Leader] \notin {"timeout_lock", "timeout_wake"}
            /\ pc[Leader] = "poll" => process_barrier = nr_threads)
    /\ [][(nr_threads = 1 /\ pc[Leader] # "user" /\ pc'[Leader] = "user") =>
              /\ outcome = "arrived"
              /\ captures = <<Leader>>
              /\ ~flag'[Leader]
              /\ process_barrier' = 0]_vars

\* C11 witness: the leader of a group of one has returned from an attempt
\* that ended with a capture.
C11_Witness ==
    /\ nr_threads = 1
    /\ pc[Leader] = "user"
    /\ ~flag[Leader]
    /\ outcome = "arrived"
    /\ captures = <<Leader>>
    /\ process_barrier = 0

\* C12: every wake the leader issues in wake_up_thread_group finds its target
\* in TASK_CHECKPOINTING, so that wake_up_state returns true and the
\* "Fail to wake" warning is never printed.
C12_WakeAlwaysFindsParked ==
    [][(pc[Leader] = "wake" /\ wake_t' = wake_t + 1 /\ wake_t # Leader) =>
          wake_up_matches(wake_t, MASK_CHECKPOINTING)]_vars

\* C13: a non-leader thread is already marked TASK_CHECKPOINTING at the
\* moment its arrival becomes visible in the counter.
C13_MarkedParkedBeforeCounted ==
    [][\A t \in Threads \ {Leader} :
          process_barrier' = process_barrier + 1 /\ pc[t] = "inc" /\ pc'[t] # "inc"
              => state[t] = TASK_CHECKPOINTING]_vars

\* The threads that are inside checkpoint_thread and past their atomic_inc.
PastIncrement == {t \in Threads : pc[t] \notin {"user", "inc"}}

\* C14: the arrival counter never leaves 0..nr_threads, and it equals the
\* number of threads that have incremented it since it was last reset: no
\* thread is counted twice in one attempt.  While the leader polls, these are
\* the threads that are past their increment.
C14_CounterCountsArrivals ==
    /\ process_barrier \in 0..nr_threads
    /\ arrived \subseteq Threads
    /\ process_barrier = Cardinality(arrived)
    /\ \A t \in Threads : pc[t] = "inc" => t \notin arrived
    /\ pc[Leader] = "poll" => arrived = PastIncrement

\* C14 witness: in the second system call's attempt every thread of a group
\* of three has been counted and the leader is about to see the barrier full.
C14_Witness ==
    /\ nr_threads = 3
    /\ sys_calls = 2
    /\ sys_ret = 0
    /\ pc[Leader] = "poll"
    /\ process_barrier = 3
    /\ arrived = {1, 2, 3}

\* C15: on the success path the leader leaves its poll only when the counter
\* equals nr_threads, then runs the capture, then takes the lock and issues
\* its wake for every other thread, then resets the counter, then clears its
\* own flag; and while that passage lasts no non-leader thread leaves
\* TASK_CHECKPOINTING except by the leader's wake, issued after the capture.
C15_LeaderOrderOnSuccess ==
    /\ [][(pc[Leader] = "poll" /\ pc'[Leader] = "capture") =>
              process_barrier = nr_threads]_vars
    /\ [][(pc[Leader] = "capture" /\ pc'[Leader] # "capture") =>
              /\ pc'[Leader] = "wake_lock"
              /\ captures' = <<Leader>>
              /\ UNCHANGED <<state, on_rq, process_barrier, flag>>]_vars
    /\ [][(pc[Leader] = "wake_lock" /\ pc'[Leader] # "wake_lock") =>
              pc'[Leader] = "wake" /\ wake_t' = 1]_vars
    /\ [][(pc[Leader] = "wake" /\ pc'[Leader] # "wake") =>
              /\ pc'[Leader] = "reset"
              /\ wake_t > nr_threads
              /\ process_barrier' = nr_threads]_vars
    /\ [][(pc[Leader] = "reset" /\ pc'[Leader] # "reset") =>
              /\ pc'[Leader] = "clear"
              /\ process_barrier' = 0
              /\ flag'[Leader]]_vars
    /\ [][(pc[Leader] = "clear" /\ pc'[Leader] # "clear") =>
              pc'[Leader] = "user" /\ ~flag'[Leader]]_vars
    /\ [][\A t \in Threads \ {Leader} :
              (outcome = "arrived" /\ pc[Leader] # "user"
                  /\ state[t] = TASK_CHECKPOINTING /\ state'[t] # state[t]) =>
              /\ pc[Leader] = "wake"
              /\ wake_t = t
              /\ captures = <<Leader>>]_vars

\* C15 witness: the leader of a group of three has captured and woken both
\* parked threads and is about to reset the counter.
C15_Witness ==
    /\ nr_threads = 3
    /\ outcome = "arrived"
    /\ pc[Leader] = "reset"
    /\ captures = <<Leader>>
    /\ process_barrier = 3
    /\ \A t \in {2, 3} : pc[t] = "parked" /\ state[t] = TASK_RUNNING /\ on_rq[t]

\* C16: a thread's TIF_NEED_CHECKPOINT flag is cleared only by the thread's
\* own last step of checkpoint_thread, whatever the leader and the dispatcher
\* do; every return from checkpoint_thread is that step; and a thread comes
\* to it only after its release: a non-leader from the restoring of its run
\* state after schedule() has returned, the leader from the reset that
\* follows its wake loop.
C16_OwnFlagClearedLast ==
    [][\A t \in Threads :
          /\ (flag[t] /\ ~flag'[t]) => (pc[t] = "clear" /\ pc'[t] = "user")
          /\ (pc[t] # "user" /\ pc'[t] = "user") =>
                 (pc[t] = "clear" /\ flag[t] /\ ~flag'[t])
          /\ (pc[t] # "clear" /\ pc'[t] = "clear") =>
                 IF t = Leader
                 THEN pc[t] = "reset" /\ outcome \in {"arrived", "timeout"}
                 ELSE pc[t] = "restore" /\ state'[t] = saved_state[t]
          /\ (t # Leader /\ pc[t] # "restore" /\ pc'[t] = "restore") =>
                 (state[t] = TASK_RUNNING /\ on_rq[t])]_vars

\* C16 witness: after a timeout in a group of three the leader and thread 2
\* have returned with their flags cleared, and thread 3, which has not
\* entered checkpoint_thread, still has its flag.
C16_Witness ==
    /\ nr_threads = 3
    /\ outcome = "timeout"
    /\ sys_pc = "idle"
    /\ pc[Leader] = "user" /\ ~flag[Leader]
    /\ pc[2] = "user" /\ ~flag[2]
    /\ pc[3] = "user" /\ flag[3]

\* C17: an iteration of the dispatcher's loop on a thread whose flag is already
\* set changes no flag and not the arrival counter, and leaves every thread
\* that is parked in checkpoint_thread parked.
C17_RetriggerHasNoEffect ==
    [][(sys_pc = "loop" /\ sys_t' = sys_t + 1 /\ flag[sys_t]) =>
          /\ flag' = flag
          /\ process_barrier' = process_barrier
          /\ \A t \in Threads : Parked(t) => Parked(t)']_vars

\* C18: when the allocation of the fragment array fails the orchestrator
\* calls no capture step and returns -ENOMEM; when save_open_files fails no
\* later capture step runs and its error is returned; in both cases
\* revert_save_open_files is not called.  It is called only when
\* save_open_files succeeded and save_signals failed.
C18_NoPartialWorkOnEarlyFailure ==
    CaptureRan =>
        /\ ~ps.alloc_ok =>
              /\ ps.calls = <<"kmalloc">>
              /\ ps.ret = -ENOMEM
              /\ ps.tasks = <<>>
        /\ (ps.alloc_ok /\ ps.files_ret # 0) =>
              /\ ps.calls = <<"kmalloc", "save_open_files", "kfree">>
              /\ ps.ret = ps.files_ret
              /\ ps.tasks = <<>>
        /\ Count(ps.calls, "revert_save_open_files") > 0 =>
              (ps.alloc_ok /\ ps.files_ret = 0 /\ ps.signals_ret # 0)
        /\ ps.ret # 0 => Count(ps.calls, "save_thread_regs") = 0

\* C18 witness: the leader of a group of three has just run an orchestration
\* in which save_open_files failed.
C18_Witness ==
    /\ pc[Leader] = "wake_lock"
    /\ nr_threads = 3
    /\ CaptureRan
    /\ ps.alloc_ok
    /\ ps.files_ret = -2
    /\ ps.ret = -2
    /\ ps.freed

\* C19: each iteration of the leader's timeout loop makes its target, the
\* leader included, runnable if the target is in any blocked state
\* (TASK_CHECKPOINTING or another), the loop ends only after the last thread
\* of the group, and no capture is made; each iteration of the success loop
\* makes its target runnable only if it is a non-leader thread in
\* TASK_CHECKPOINTING.  No iteration touches another thread.
C19_TimeoutWakeIsBroad ==
    /\ [][(pc[Leader] = "timeout_wake" /\ wake_t' = wake_t + 1) =>
              /\ captures = <<>>
              /\ \A t \in Threads :
                    IF t = wake_t /\ state[t] # TASK_RUNNING
                    THEN state'[t] = TASK_RUNNING /\ on_rq'[t]
                    ELSE state'[t] = state[t] /\ on_rq'[t] = on_rq[t]]_vars
    /\ [][(pc[Leader] = "timeout_wake" /\ pc'[Leader] # "timeout_wake") =>
              wake_t > nr_threads]_vars
    /\ [][(pc[Leader] = "wake" /\ wake_t' = wake_t + 1) =>
              \A t \in Threads :
                 IF t = wake_t /\ t # Leader /\ state[t] = TASK_CHECKPOINTING
                 THEN state'[t] = TASK_RUNNING /\ on_rq'[t]
                 ELSE state'[t] = state[t] /\ on_rq'[t] = on_rq[t]]_vars
    /\ [](outcome = "timeout" => captures = <<>>)

\* C19 witness: in its timeout loop the leader of a group of three has woken
\* thread 2, which was parked, and has come to thread 3, which sleeps in
\* TASK_INTERRUPTIBLE outside checkpoint_thread.
C19_Witness ==
    /\ nr_threads = 3
    /\ pc[Leader] = "timeout_wake"
    /\ wake_t = 3
    /\ pc[2] = "parked" /\ state[2] = TASK_RUNNING /\ on_rq[2]
    /\ pc[3] = "user" /\ state[3] = TASK_INTERRUPTIBLE /\ ~on_rq[3]

\* C20: when do_checkpoint_process has returned an error the leader goes on
\* as after a success: it takes the lock, issues its wake for every other
\* thread, which makes every thread it finds in TASK_CHECKPOINTING runnable,
\* then resets the counter to 0, clears its own flag and returns.
C20_FailedCaptureStillReleases ==
    /\ [][(pc[Leader] = "capture" /\ pc'[Leader] # "capture") =>
              pc'[Leader] = "wake_lock"]_vars
    /\ [](capture_failed =>
            /\ outcome = "arrived"
            /\ captures = <<Leader>>
            /\ pc[Leader] \in {"wake_lock", "wake", "reset", "clear", "user"})
    /\ [][(capture_failed /\ pc[Leader] = "wake_lock" /\ pc'[Leader] # "wake_lock") =>
              pc'[Leader] = "wake" /\ wake_t' = 1]_vars
    /\ [][(capture_failed /\ pc[Leader] = "wake" /\ wake_t' = wake_t + 1
               /\ wake_t # Leader /\ state[wake_t] = TASK_CHECKPOINTING) =>
              state'[wake_t] = TASK_RUNNING /\ on_rq'[wake_t]]_vars
    /\ [][(capture_failed /\ pc[Leader] = "wake" /\ pc'[Leader] # "wake") =>
              pc'[Leader] = "reset" /\ wake_t > nr_threads]_vars
    /\ [][(capture_failed /\ pc[Leader] = "reset" /\ pc'[Leader] # "reset") =>
              pc'[Leader] = "clear" /\ process_barrier' = 0]_vars
    /\ [][(capture_failed /\ pc[Leader] = "clear" /\ pc'[Leader] # "clear") =>
              /\ pc'[Leader] = "user"
              /\ ~flag'[Leader]
              /\ process_barrier' = 0]_vars

\* C20 witness: after a capture that failed, every thread of a group of three
\* has returned from checkpoint_thread with its flag cleared and the counter
\* is 0.
C20_Witness ==
    /\ nr_threads = 3
    /\ capture_failed
    /\ process_barrier = 0
    /\ \A t \in Threads : pc[t] = "user" /\ ~flag[t]

====
